---------------------------- MODULE Spec2Model ----------------------------
(***************************************************************************)
(* Model of datasets/data_files.py: resolution of data file patterns       *)
(* against a local directory or a dataset repository, inference of the     *)
(* split patterns, origin metadata and the DataFilesList / DataFilesDict   *)
(* containers.                                                             *)
(*                                                                         *)
(* Python str values are TLA+ strings; a character is a string of length   *)
(* one.  Python lists and tuples are sequences, a dict is the sequence of  *)
(* its (key, value) items in insertion order.                              *)
(***************************************************************************)
EXTENDS Naturals, Sequences, FiniteSets, TLC

(***************************************************************************)
(* str primitives                                                          *)
(***************************************************************************)

\* s[i] for a 1-based index i
Char(s, i) == SubSeq(s, i, i)

\* The characters the model's strings are made of, in code point order.
Alphabet == "!*+-./0123456789:?ABCDEFGHIJKLMNOPQRSTUVWXYZ[]_abcdefghijklmnopqrstuvwxyz{}"

Ord(c) == CHOOSE i \in 1..Len(Alphabet) : Char(Alphabet, i) = c

\* c in chars
CharIn(c, chars) == \E i \in 1..Len(chars) : Char(chars, i) = c

\* sub in s
Contains(s, sub) ==
    \E i \in 1..(Len(s) + 1) :
        /\ i + Len(sub) - 1 <= Len(s)
        /\ SubSeq(s, i, i + Len(sub) - 1) = sub

\* s.startswith(prefix)
StartsWith(s, prefix) == Len(prefix) <= Len(s) /\ SubSeq(s, 1, Len(prefix)) = prefix

\* s.endswith(suffix)
EndsWith(s, suffix) ==
    Len(suffix) <= Len(s) /\ SubSeq(s, Len(s) - Len(suffix) + 1, Len(s)) = suffix

\* s.find(sub, start): the least index >= start where sub occurs, 0 when none
Find(s, sub, start) ==
    LET hits == {i \in start..(Len(s) + 1) :
                    /\ i + Len(sub) - 1 <= Len(s)
                    /\ SubSeq(s, i, i + Len(sub) - 1) = sub}
    IN  IF hits = {} THEN 0 ELSE CHOOSE i \in hits : \A j \in hits : i <= j

\* s.split(sep) for a one-character sep
RECURSIVE Split(_, _)
Split(s, sep) ==
    LET k == Find(s, sep, 1)
    IN  IF k = 0 THEN <<s>>
        ELSE <<SubSeq(s, 1, k - 1)>> \o Split(SubSeq(s, k + 1, Len(s)), sep)

\* s.replace(old, new)
RECURSIVE Replace(_, _, _)
Replace(s, old, new) ==
    LET k == Find(s, old, 1)
    IN  IF k = 0 THEN s
        ELSE SubSeq(s, 1, k - 1) \o new
                \o Replace(SubSeq(s, k + Len(old), Len(s)), old, new)

\* s < t for str: lexicographic on code points
RECURSIVE StrLess(_, _)
StrLess(s, t) ==
    IF Len(t) = 0 THEN FALSE
    ELSE IF Len(s) = 0 THEN TRUE
    ELSE IF Head(s) = Head(t) THEN StrLess(Tail(s), Tail(t))
    ELSE Ord(Head(s)) < Ord(Head(t))

\* a < b for lists of str
RECURSIVE ListLess(_, _)
ListLess(a, b) ==
    IF Len(b) = 0 THEN FALSE
    ELSE IF Len(a) = 0 THEN TRUE
    ELSE IF Head(a) = Head(b) THEN ListLess(Tail(a), Tail(b))
    ELSE StrLess(Head(a), Head(b))

\* The elements of a sequence
Range(seq) == {seq[i] : i \in 1..Len(seq)}

(***************************************************************************)
(* fnmatch.fnmatchcase(name, pat): "*", "?" and "[seq]" / "[!seq]", a "["  *)
(* that is never closed being a literal character.                         *)
(***************************************************************************)

\* The index of the "]" closing the class opened at pat[j] = "[", 0 when none
ClassEnd(pat, j) ==
    LET j1 == IF j + 1 <= Len(pat) /\ Char(pat, j + 1) = "!" THEN j + 2 ELSE j + 1
        j2 == IF j1 <= Len(pat) /\ Char(pat, j1) = "]" THEN j1 + 1 ELSE j1
    IN  Find(pat, "]", j2)

\* Whether character c is in the class body (the text between "[" and "]")
RECURSIVE InClassBody(_, _)
InClassBody(c, body) ==
    IF Len(body) = 0 THEN FALSE
    ELSE IF Len(body) >= 3 /\ Char(body, 2) = "-"
         THEN \/ (Ord(Char(body, 1)) <= Ord(c) /\ Ord(c) <= Ord(Char(body, 3)))
              \/ InClassBody(c, SubSeq(body, 4, Len(body)))
    ELSE Char(body, 1) = c \/ InClassBody(c, Tail(body))

InClass(c, pat, j, k) ==
    LET body == SubSeq(pat, j + 1, k - 1)
    IN  IF Len(body) > 0 /\ Head(body) = "!"
        THEN ~InClassBody(c, Tail(body))
        ELSE InClassBody(c, body)

RECURSIVE MatchFrom(_, _, _, _)
MatchFrom(name, pat, i, j) ==
    IF j > Len(pat) THEN i > Len(name)
    ELSE LET pc == Char(pat, j)
         IN  IF pc = "*"
             THEN \/ MatchFrom(name, pat, i, j + 1)
                  \/ (i <= Len(name) /\ MatchFrom(name, pat, i + 1, j))
             ELSE IF pc = "?"
             THEN i <= Len(name) /\ MatchFrom(name, pat, i + 1, j + 1)
             ELSE IF pc = "[" /\ ClassEnd(pat, j) # 0
             THEN /\ i <= Len(name)
                  /\ InClass(Char(name, i), pat, j, ClassEnd(pat, j))
                  /\ MatchFrom(name, pat, i + 1, ClassEnd(pat, j) + 1)
             ELSE /\ i <= Len(name)
                  /\ Char(name, i) = pc
                  /\ MatchFrom(name, pat, i + 1, j + 1)

fnmatchcase(name, pat) == MatchFrom(name, pat, 1, 1)

(***************************************************************************)
(* pathlib: a pure path is the sequence of its parts, the root "/" being   *)
(* the first part of an absolute path.                                     *)
(***************************************************************************)

\* PurePosixPath(s).parts: empty and "." components are dropped
Parts(s) ==
    LET comps == SelectSeq(Split(s, "/"), LAMBDA c : c # "" /\ c # ".")
    IN  IF StartsWith(s, "/") THEN <<"/">> \o comps ELSE comps

\* PurePath.name
Name(parts) ==
    IF parts = <<>> \/ parts = <<"/">> THEN "" ELSE parts[Len(parts)]

\* PurePath.as_posix()
RECURSIVE AsPosix(_)
AsPosix(parts) ==
    IF parts = <<>> THEN "."
    ELSE IF Len(parts) = 1 THEN parts[1]
    ELSE IF parts[1] = "/" THEN "/" \o AsPosix(Tail(parts))
    ELSE parts[1] \o "/" \o AsPosix(Tail(parts))

\* PurePath.suffixes, each without its leading dot (suffix[1:])
Suffixes(parts) ==
    LET name == Name(parts)
    IN  IF EndsWith(name, ".") THEN <<>>
        ELSE LET RECURSIVE LStrip(_)
                 LStrip(s) == IF StartsWith(s, ".") THEN LStrip(Tail(s)) ELSE s
             IN  Tail(Split(LStrip(name), "."))

\* PurePath.match: the pattern's parts pat are matched against the path's last
\* parts, one fnmatch per part; an anchored pattern must match all the parts.
MatchParts(parts, pat) ==
    /\ Len(pat) > 0
    /\ IF pat[1] = "/"
       THEN /\ Len(parts) > 0 /\ parts[1] = "/"
            /\ Len(pat) = Len(parts)
            /\ \A k \in 2..Len(pat) : fnmatchcase(parts[k], pat[k])
       ELSE /\ Len(pat) <= Len(parts)
            /\ \A k \in 1..Len(pat) :
                  fnmatchcase(parts[Len(parts) - Len(pat) + k], pat[k])

PurePathMatch(parts, pattern) == MatchParts(parts, Parts(pattern))

(***************************************************************************)
(* Values that may be absent, and calls that may raise                     *)
(***************************************************************************)

\* Optional[...]: None is the empty sequence, a given value x is <<x>>
None == <<>>
Some(x) == <<x>>

\* The outcome of a call: a returned value, or FileNotFoundError raised
Return(v) == [raised |-> FALSE, value |-> v]
FileNotFoundError == [raised |-> TRUE, value |-> <<>>]

\* sorted(paths) for a list of pure paths (compared by their parts)
Insert(x, sorted) ==
    SelectSeq(sorted, LAMBDA y : ListLess(y, x)) \o <<x>>
        \o SelectSeq(sorted, LAMBDA y : ~ListLess(y, x))

RECURSIVE Sorted(_)
Sorted(paths) ==
    IF paths = <<>> THEN <<>> ELSE Insert(Head(paths), Sorted(Tail(paths)))

\* [f(x) for x in seq]
Map(seq, f(_)) == [i \in 1..Len(seq) |-> f(seq[i])]

\* The lists of a list of lists, chained
RECURSIVE Chain(_)
Chain(lists) == IF lists = <<>> THEN <<>> ELSE Head(lists) \o Chain(Tail(lists))

(***************************************************************************)
(* Module constants                                                        *)
(***************************************************************************)

DEFAULT_SPLIT == "train"

SPLIT_PATTERN_SHARDED ==
    "data/{split}-[0-9][0-9][0-9][0-9][0-9]-of-[0-9][0-9][0-9][0-9][0-9].*"

DEFAULT_PATTERNS_SPLIT_IN_FILENAME ==
    << <<"train", <<"*train*">> >>,
       <<"test", <<"*test*", "*eval*">> >>,
       <<"validation", <<"*dev*", "*valid*">> >> >>

DEFAULT_PATTERNS_SPLIT_IN_DIR_NAME ==
    << <<"train", <<"*train*/*", "*train*/**/*">> >>,
       <<"test", <<"*test*/*", "*test*/**/*", "*eval*/*", "*eval*/**/*">> >>,
       <<"validation", <<"*dev*/*", "*dev*/**/*", "*valid*/*", "*valid*/**/*">> >> >>

DEFAULT_PATTERNS_ALL == << <<"train", <<"*">> >> >>

ALL_SPLIT_PATTERNS == <<SPLIT_PATTERN_SHARDED>>

ALL_DEFAULT_PATTERNS ==
    <<DEFAULT_PATTERNS_SPLIT_IN_FILENAME,
      DEFAULT_PATTERNS_SPLIT_IN_DIR_NAME,
      DEFAULT_PATTERNS_ALL>>

WILDCARD_CHARACTERS == "*[]"

FILES_TO_IGNORE ==
    <<"README.md", "config.json", "dataset_infos.json", "dummy_data.zip",
      "dataset_dict.json">>

contains_wildcards(pattern) ==
    \E i \in 1..Len(WILDCARD_CHARACTERS) :
        Contains(pattern, Char(WILDCARD_CHARACTERS, i))

(***************************************************************************)
(* Resolution of one pattern                                               *)
(***************************************************************************)

\* filepath.name not in data_files_ignore and not filepath.name.startswith(".")
NotIgnored(parts) ==
    /\ Name(parts) \notin Range(FILES_TO_IGNORE)
    /\ ~StartsWith(Name(parts), ".")

\* any(suffix[1:] in allowed_extensions for suffix in filepath.suffixes)
AnyIn(suffixes, allowed_extensions) ==
    \E i \in 1..Len(suffixes) : suffixes[i] \in Range(allowed_extensions)

\* A variant of the test that looks at filepath.suffix only
HasAllowedFinalExtension(filepath, allowed_extensions) ==
    /\ Suffixes(filepath) # <<>>
    /\ Suffixes(filepath)[Len(Suffixes(filepath))] \in Range(allowed_extensions)

HasAllowedExtension(filepath, allowed_extensions) ==
    AnyIn(Suffixes(filepath), allowed_extensions)

\* out, given matched_paths: the files with an allowed extension
FilterExtensions(matched_paths, allowed_extensions) ==
    IF allowed_extensions # None
    THEN SelectSeq(matched_paths,
            LAMBDA filepath : HasAllowedExtension(filepath, allowed_extensions[1]))
    ELSE matched_paths

\* A variant of the end of the resolvers that leaves out
\* "and not contains_wildcards(pattern)"
RaiseWhenEmpty(out, pattern) ==
    IF out = <<>> THEN FileNotFoundError ELSE Return(Sorted(out))

\* The end of both resolvers: FileNotFoundError, or sorted(out)
RaiseOrSort(out, pattern) ==
    IF out = <<>> /\ ~contains_wildcards(pattern)
    THEN FileNotFoundError
    ELSE Return(Sorted(out))

\* filepath.relative_to("/")
RelativeToRoot(filepath) == Tail(filepath)

\* dataset_info is [id, sha, siblings]: siblings the list of rfilename strings
_resolve_single_pattern_in_dataset_repository(dataset_info, pattern, allowed_extensions) ==
    LET all_data_files ==
            Map(dataset_info.siblings, LAMBDA rfilename : Parts("/" \o rfilename))
        matched_paths ==
            Map(SelectSeq(all_data_files,
                    LAMBDA filepath :
                        NotIgnored(filepath) /\ PurePathMatch(filepath, pattern)),
                RelativeToRoot)
    IN  RaiseOrSort(FilterExtensions(matched_paths, allowed_extensions), pattern)

(***************************************************************************)
(* The local tree: base_path holds the files of a listing (paths relative  *)
(* to base_path) and the directories those paths imply.                    *)
(***************************************************************************)

\* urllib.parse.urlparse(s).scheme, for the lower-case strings of the model
Scheme(s) ==
    LET k == Find(s, ":", 1)
        letters == "abcdefghijklmnopqrstuvwxyz"
        scheme_chars == letters \o "0123456789+-."
    IN  IF /\ k > 1
           /\ CharIn(Char(s, 1), letters)
           /\ \A i \in 1..(k - 1) : CharIn(Char(s, i), scheme_chars)
        THEN SubSeq(s, 1, k - 1)
        ELSE ""

is_remote_url(url_or_filename) ==
    Scheme(url_or_filename) \in {"http", "https", "s3", "gs", "hdfs", "ftp"}

is_relative_path(url_or_filename) ==
    Scheme(url_or_filename) = "" /\ ~StartsWith(url_or_filename, "/")

\* A set as a list, in an order of no significance
RECURSIVE SetToSeq(_)
SetToSeq(S) ==
    IF S = {} THEN <<>>
    ELSE LET x == CHOOSE y \in S : TRUE IN <<x>> \o SetToSeq(S \ {x})

\* The directories the files are in, base_path itself included, as parts
\* relative to base_path
Directories(files) ==
    UNION {{SubSeq(Parts(files[i]), 1, k) : k \in 0..(Len(Parts(files[i])) - 1)} :
              i \in 1..Len(files)}
    \cup {<<>>}

\* An entry at or below base_path: its absolute parts, its parts relative to
\* base_path, and Path.is_file()
Entry(base, rel, is_file) == [parts |-> base \o rel, rel |-> rel, is_file |-> is_file]

\* The entries: the files, in the listing's order, then the directories
Entries(base_path, files) ==
    Map(files, LAMBDA f : Entry(Parts(base_path), Parts(f), TRUE))
    \o Map(SetToSeq(Directories(files)),
           LAMBDA dir : Entry(Parts(base_path), dir, FALSE))

\* pathlib's selectors: whether the parts rel, of a file when is_file, are
\* selected by the pattern parts pat.  "**" stands for any number of
\* directories, any other part is matched against one name.
RECURSIVE Selects(_, _, _)
Selects(rel, pat, is_file) ==
    IF pat = <<>> THEN rel = <<>>
    ELSE IF Head(pat) = "**"
    THEN \/ Selects(rel, Tail(pat), is_file)
         \/ /\ rel # <<>>
            /\ (Len(rel) > 1 \/ ~is_file)
            /\ Selects(Tail(rel), pat, is_file)
    ELSE /\ rel # <<>>
         /\ fnmatchcase(Head(rel), Head(pat))
         /\ Selects(Tail(rel), Tail(pat), is_file)

\* list(Path(base_path).rglob(pattern)): glob("**/" + pattern)
rglob(entries, pattern) ==
    SelectSeq(entries,
        LAMBDA e : Selects(e.rel, <<"**">> \o Parts(pattern), e.is_file))

\* glob.glob(pattern) for a pattern that is not relative: an absolute pattern
\* is matched part by part, a wildcard never matching a leading dot; a string
\* with a URL scheme names nothing in the tree.
HasMagic(c) == Contains(c, "*") \/ Contains(c, "?") \/ Contains(c, "[")

GlobPart(name, c) ==
    IF HasMagic(c)
    THEN fnmatchcase(name, c) /\ (StartsWith(name, ".") => StartsWith(c, "."))
    ELSE name = c

GlobParts(parts, pat) ==
    /\ Len(parts) = Len(pat)
    /\ \A k \in 2..Len(pat) : GlobPart(parts[k], pat[k])

glob(entries, pattern) ==
    IF ~StartsWith(pattern, "/") THEN <<>>
    ELSE SelectSeq(entries, LAMBDA e : GlobParts(e.parts, Parts(pattern)))

\* filepath.resolve()
Resolve(e) == e.parts

_resolve_single_pattern_locally(base_path, files, pattern, allowed_extensions) ==
    LET glob_iter == IF is_relative_path(pattern)
                     THEN rglob(Entries(base_path, files), pattern)
                     ELSE glob(Entries(base_path, files), pattern)
        matched_paths ==
            Map(SelectSeq(glob_iter, LAMBDA e : NotIgnored(e.parts) /\ e.is_file),
                Resolve)
    IN  RaiseOrSort(FilterExtensions(matched_paths, allowed_extensions), pattern)

(***************************************************************************)
(* Resolution of a list of patterns                                        *)
(***************************************************************************)

\* A resolved data file: a Path (its posix form) or a Url
PathOf(parts) == [cls |-> "Path", s |-> AsPosix(parts)]
Url(str) == [cls |-> "Url", s |-> str]

\* hf_hub_url(repo_id, path, revision)
hf_hub_url(repo_id, path, revision) ==
    "https://huggingface.co/datasets/" \o repo_id \o "/resolve/" \o revision
        \o "/" \o path

\* A variant of the loop that returns at the end of its first iteration
GatherFirst(outcomes) ==
    IF outcomes = <<>> THEN Return(<<>>)
    ELSE IF outcomes[1].raised THEN FileNotFoundError
    ELSE Return(outcomes[1].value)

\* The loop "for pattern in patterns", given the outcome of each pattern: the
\* error of the first pattern that raises, or the files of all the patterns,
\* in the order of the patterns.
Gather(outcomes) ==
    IF \E i \in 1..Len(outcomes) : outcomes[i].raised
    THEN FileNotFoundError
    ELSE Return(Chain(Map(outcomes, LAMBDA r : r.value)))

\* A variant without "if not data_files: raise FileNotFoundError(error_msg)"
NoRaiseIfEmpty(data_files) == data_files

\* "if not data_files: raise FileNotFoundError(error_msg)"
RaiseIfEmpty(data_files) ==
    IF ~data_files.raised /\ data_files.value = <<>>
    THEN FileNotFoundError
    ELSE data_files

\* What one resolved pattern appends: Path(filepath) for each file found
AppendedPaths(found) ==
    IF found.raised THEN found ELSE Return(Map(found.value, PathOf))

\* What one resolved pattern appends: Url(hf_hub_url(...)) for each file found
AppendedUrls(found, dataset_info) ==
    IF found.raised THEN found
    ELSE Return(Map(found.value,
             LAMBDA rel_path :
                 Url(hf_hub_url(dataset_info.id, AsPosix(rel_path), dataset_info.sha))))

resolve_patterns_locally_or_by_urls(base_path, files, patterns, allowed_extensions) ==
    RaiseIfEmpty(Gather(Map(patterns,
        LAMBDA pattern :
            IF is_remote_url(pattern)
            THEN Return(<<Url(pattern)>>)
            ELSE AppendedPaths(_resolve_single_pattern_locally(
                                   base_path, files, pattern, allowed_extensions)))))

resolve_patterns_in_dataset_repository(dataset_info, patterns, allowed_extensions) ==
    RaiseIfEmpty(Gather(Map(patterns,
        LAMBDA pattern :
            AppendedUrls(_resolve_single_pattern_in_dataset_repository(
                             dataset_info, pattern, allowed_extensions),
                         dataset_info))))

(***************************************************************************)
(* Inference of the split patterns                                         *)
(***************************************************************************)

\* A dict: the sequence of its (key, value) items
Keys(dict) == {dict[i][1] : i \in 1..Len(dict)}
Lookup(dict, key) == dict[CHOOSE i \in 1..Len(dict) : dict[i][1] = key][2]

\* The orders in which a set may be iterated
Orders(S) == {p \in [1..Cardinality(S) -> S] : Range(p) = S}

\* string_to_dict(string, pattern)["split"]: the template is searched in the
\* string as a regular expression, "{split}" being the group (.+); the match
\* is the leftmost one and the group takes the longest text.  In a regular
\* expression the template's final ".*" stands for any text.
string_to_dict(string, pattern) ==
    LET k == Find(pattern, "{split}", 1)
        pre == SubSeq(pattern, 1, k - 1)
        post == SubSeq(pattern, k + Len("{split}"), Len(pattern) - 2) \o "*"
        n == Len(string)
        found == {ij \in (1..n) \X (1..n) :
                    /\ ij[1] + Len(pre) - 1 <= n
                    /\ SubSeq(string, ij[1], ij[1] + Len(pre) - 1) = pre
                    /\ ij[1] + Len(pre) <= ij[2]
                    /\ fnmatchcase(SubSeq(string, ij[2] + 1, n), post)}
        best == CHOOSE ij \in found :
                    \A o \in found :
                        ij[1] < o[1] \/ (ij[1] = o[1] /\ ij[2] >= o[2])
    IN  SubSeq(string, best[1] + Len(pre), best[2])

\* The least element of a non-empty set of numbers
Min(S) == CHOOSE i \in S : \A j \in S : i <= j

\* The body of "try: for pattern in patterns: ... except FileNotFoundError:
\* pass", given the outcome of the resolver on each pattern: whether the split
\* was appended to non_empty_splits.  The loop ends at the first pattern that
\* raises or that resolves to a non-empty list.
Appends(outcomes) ==
    LET ends == {i \in 1..Len(outcomes) :
                    outcomes[i].raised \/ outcomes[i].value # <<>>}
    IN  ends # {} /\ ~outcomes[Min(ends)].raised

\* A pattern_resolver is a function of the pattern: its outcome on each of
\* the patterns it may be given
SplitProbe(pattern_resolver, patterns) ==
    Appends([i \in 1..Len(patterns) |-> pattern_resolver[patterns[i]]])

\* non_empty_splits after the loop over patterns_dict.items()
NonEmptySplits(pattern_resolver, patterns_dict) ==
    Map(SelectSeq(patterns_dict,
            LAMBDA item : SplitProbe(pattern_resolver, item[2])),
        LAMBDA item : item[1])

\* A variant of the second loop in which a later patterns_dict overrides an
\* earlier one
LastNonEmpty(found) ==
    LET hits == {k \in 1..Len(found) : found[k] # <<>>}
        last == CHOOSE k \in hits : \A j \in hits : j <= k
    IN  IF hits = {} THEN FileNotFoundError
        ELSE Return(Map(found[last],
                 LAMBDA split : <<split, Lookup(ALL_DEFAULT_PATTERNS[last], split)>>))

\* The second loop, given non_empty_splits for each of ALL_DEFAULT_PATTERNS:
\* the first that is not empty decides, and when all are empty the function raises.
FirstNonEmpty(found) ==
    LET hits == {k \in 1..Len(found) : found[k] # <<>>}
    IN  IF hits = {} THEN FileNotFoundError
        ELSE Return(Map(found[Min(hits)],
                 LAMBDA split :
                     <<split, Lookup(ALL_DEFAULT_PATTERNS[Min(hits)], split)>>))

DefaultPatterns(pattern_resolver) ==
    FirstNonEmpty(Map(ALL_DEFAULT_PATTERNS,
        LAMBDA patterns_dict : NonEmptySplits(pattern_resolver, patterns_dict)))

\* {split: [split_pattern.format(split=split)] for split in splits}, the set
\* splits being iterated in any order
ShardedDicts(split_pattern, splits) ==
    {Return(Map(order,
         LAMBDA split : <<split, <<Replace(split_pattern, "{split}", split)>> >>)) :
        order \in Orders(splits)}

\* A variant of the first loop that reads the split of the first file only
ShardedFirstFile(split_pattern, data_files) ==
    ShardedDicts(split_pattern,
        {string_to_dict(AsPosix(data_files[1]), split_pattern)})

\* The first loop, for one split_pattern whose data_files are not empty
ShardedPatterns(split_pattern, data_files) ==
    ShardedDicts(split_pattern,
        {string_to_dict(AsPosix(data_files[i]), split_pattern) :
            i \in 1..Len(data_files)})

\* The function from "if len(data_files) > 0" on, for the one split_pattern
AfterSharded(data_files, split_pattern, rest) ==
    IF data_files.raised THEN {FileNotFoundError}
    ELSE IF Len(data_files.value) > 0
    THEN ShardedPatterns(split_pattern, data_files.value)
    ELSE {rest}

\* split_pattern.replace("{split}", "*"), for the one split_pattern
ShardedGlob == Replace(ALL_SPLIT_PATTERNS[1], "{split}", "*")

\* The outcomes _get_data_files_patterns(pattern_resolver) may have
_get_data_files_patterns(pattern_resolver) ==
    AfterSharded(pattern_resolver[ShardedGlob], ALL_SPLIT_PATTERNS[1],
                 DefaultPatterns(pattern_resolver))

\* The patterns _get_data_files_patterns may pass to the resolver
ProbedPatterns ==
    {ShardedGlob}
    \cup UNION {UNION {Range(ALL_DEFAULT_PATTERNS[k][i][2]) :
                          i \in 1..Len(ALL_DEFAULT_PATTERNS[k])} :
                   k \in 1..Len(ALL_DEFAULT_PATTERNS)}

get_patterns_locally(base_path, files) ==
    _get_data_files_patterns(
        [pattern \in ProbedPatterns |->
            _resolve_single_pattern_locally(base_path, files, pattern, None)])

get_patterns_in_dataset_repository(dataset_info) ==
    _get_data_files_patterns(
        [pattern \in ProbedPatterns |->
            _resolve_single_pattern_in_dataset_repository(dataset_info, pattern, None)])

(***************************************************************************)
(* Origin metadata                                                         *)
(***************************************************************************)

\* os.path.getmtime(path): the modification time the file system holds
getmtime(path) == 1600000000 + Len(path)

\* request_etag(url): the ETag the server holds for the url
request_etag(url) == "etag-" \o url

\* _get_single_origin_metadata_locally_or_by_urls(data_file); reachable says
\* whether the request for a Url succeeds.  The result is a 1-tuple, or the
\* error the request raised.
ConnectionError == <<"ConnectionError">>

_get_single_origin_metadata_locally_or_by_urls(data_file, reachable) ==
    IF data_file.cls = "Url"
    THEN IF reachable THEN <<request_etag(data_file.s)>> ELSE ConnectionError
    ELSE <<ToString(getmtime(data_file.s))>>

\* A variant that yields the results in the order in which the tasks ended
GatherAsCompleted(results, completed) ==
    [i \in 1..Len(results) |-> results[completed[i]]]

\* list(executor.map(fn, data_files)): the futures' results, in the order in
\* which the tasks were submitted, whatever the order, completed, in which
\* the tasks ended
GatherResults(results, completed) == [i \in 1..Len(results) |-> results[i]]

\* thread_map(fn, data_files, max_workers=max_workers): every task has run
\* when the results are gathered
_get_origin_metadata_locally_or_by_urls(data_files, reachable) ==
    GatherResults(
        Map(data_files,
            LAMBDA data_file :
                _get_single_origin_metadata_locally_or_by_urls(data_file, reachable)),
        [i \in 1..Len(data_files) |-> i])

(***************************************************************************)
(* DataFilesList and DataFilesDict                                         *)
(***************************************************************************)

\* DataFilesList.__init__
DataFilesList(data_files, origin_metadata) ==
    [data_files |-> data_files, origin_metadata |-> origin_metadata]

\* The outcome of a call that raised the error of a failed request
RaisedConnectionError == [raised |-> TRUE, value |-> ConnectionError]

\* from_hf_repo, data_files being the outcome of its first line
HfRepoList(data_files, patterns, dataset_info) ==
    IF data_files.raised THEN data_files
    ELSE Return(DataFilesList(
             data_files.value,
             Map(patterns, LAMBDA pattern : <<dataset_info.id, dataset_info.sha>>)))

DataFilesList_from_hf_repo(patterns, dataset_info, allowed_extensions) ==
    HfRepoList(resolve_patterns_in_dataset_repository(
                   dataset_info, patterns, allowed_extensions),
               patterns, dataset_info)

\* cls(data_files, origin_metadata), unless a request raised
ListOrError(data_files, origin_metadata) ==
    IF ConnectionError \in Range(origin_metadata)
    THEN RaisedConnectionError
    ELSE Return(DataFilesList(data_files, origin_metadata))

\* from_local_or_remote, data_files being the outcome of its second line
LocalOrRemoteList(data_files, reachable) ==
    IF data_files.raised THEN data_files
    ELSE ListOrError(data_files.value,
             _get_origin_metadata_locally_or_by_urls(data_files.value, reachable))

DataFilesList_from_local_or_remote(patterns, base_path, files, allowed_extensions, reachable) ==
    LocalOrRemoteList(resolve_patterns_locally_or_by_urls(
                          base_path, files, patterns, allowed_extensions),
                      reachable)

\* sanitize_patterns(patterns).  A user value is [type, v] with type "str",
\* "list", "DataFilesList" (a list) or "dict" (v the items, each value such a
\* [type, v]).
sanitize_patterns(patterns) ==
    IF patterns.type = "dict"
    THEN [i \in 1..Len(patterns.v) |->
            <<patterns.v[i][1],
              IF patterns.v[i][2].type \in {"list", "DataFilesList"}
              THEN patterns.v[i][2]
              ELSE [type |-> "list", v |-> <<patterns.v[i][2].v>>]>>]
    ELSE IF patterns.type = "str"
    THEN << <<DEFAULT_SPLIT, [type |-> "list", v |-> <<patterns.v>>]>> >>
    ELSE << <<DEFAULT_SPLIT, patterns>> >>

\* The loop "for key, patterns_for_key in patterns.items()" of the two
\* DataFilesDict constructors, given the outcome of each value: the first
\* error ends it.
DictOf(patterns, built) ==
    IF \E i \in 1..Len(built) : built[i].raised
    THEN built[Min({i \in 1..Len(built) : built[i].raised})]
    ELSE Return([i \in 1..Len(patterns) |-> <<patterns[i][1], built[i].value>>])

DataFilesDict_from_local_or_remote(patterns, base_path, files, allowed_extensions, reachable) ==
    DictOf(patterns,
           Map(patterns,
               LAMBDA item :
                   IF item[2].type # "DataFilesList"
                   THEN DataFilesList_from_local_or_remote(
                            item[2].v, base_path, files, allowed_extensions, reachable)
                   ELSE Return(item[2].v)))

DataFilesDict_from_hf_repo(patterns, dataset_info, allowed_extensions) ==
    DictOf(patterns,
           Map(patterns,
               LAMBDA item :
                   IF item[2].type # "DataFilesList"
                   THEN DataFilesList_from_hf_repo(
                            item[2].v, dataset_info, allowed_extensions)
                   ELSE Return(item[2].v)))

\* sorted(self.items()): the keys are distinct, so the items are ordered by key
InsertItem(x, sorted) ==
    SelectSeq(sorted, LAMBDA y : StrLess(y[1], x[1])) \o <<x>>
        \o SelectSeq(sorted, LAMBDA y : ~StrLess(y[1], x[1]))

RECURSIVE SortedItems(_)
SortedItems(items) ==
    IF items = <<>> THEN <<>>
    ELSE InsertItem(Head(items), SortedItems(Tail(items)))

\* A variant of __reduce__ without sorted(): dict(self.items())
ReduceUnsorted(self) == self

\* DataFilesDict.__reduce__: the argument DataFilesDict is rebuilt from
DataFilesDict___reduce__(self) == SortedItems(self)


(***************************************************************************)
(* The state: a data source (a local directory or a dataset repository     *)
(* holding some files), the call made last and its outcome, and the        *)
(* thread pool of a running thread_map.  The functions keep no state from  *)
(* one call to the next: a behaviour is one call on a data source, then    *)
(* the calls that are made on its result.                                  *)
(***************************************************************************)

VARIABLES
    backend,    \* "local", "repo", or "callable" (a pattern resolver given by the caller)
    files,      \* the files of the directory or repository, relative paths, as listed
    resolver,   \* for "callable": the patterns the resolver matches, and raises on
    call,       \* the last call: [op, arguments]; for thread_map also completed,
                \* the tasks that ended, in the order in which they ended
    ret,        \* its outcome
    pending,    \* thread_map: the tasks submitted and not yet started
    running,    \* thread_map: the tasks a worker thread is running
    futures     \* thread_map: the result of each task, <<>> until it is done

vars == <<backend, files, resolver, call, ret, pending, running, futures>>

\* Bounds of the model
MaxFiles == 3
MaxPatterns == 2
MaxTasks == 3
MaxMatching == 2
MaxRaising == 1

\* base_path, and the dataset_info of the repository
BasePath == "/b"
DatasetInfo == [id |-> "user/ds", sha |-> "0ca0d9f", siblings |-> files]

\* The files a directory or repository may hold, in the order they are listed
DataFiles ==
    <<"c.txt", "b.json", "README.md", "a.csv", "d.csv.gz", "sub/.h.csv">>
ListFiles == <<"c.csv", "b.json", "README.md", "a.csv", "d.csv.gz">>
SplitFiles ==
    <<"train.csv", "data/train-00001-of-00002.parquet", "test.csv",
      "data/train-00000-of-00002.parquet", "my_eval/s/y.csv", "a.csv",
      "data/test-00000-of-00001.parquet">>

Listings(universe) ==
    {SelectSeq(universe, LAMBDA f : f \in S) :
        S \in {T \in SUBSET Range(universe) : Cardinality(T) <= MaxFiles}}

\* The arguments of the calls
SinglePatterns ==
    {"*", "*.csv", "a.csv", "missing.csv", "?.zzz", "d.csv.gz", "README.md",
     "*.zzz", "sub", "[a-c].*", "/b/a.csv", "s3://bucket/x.csv"}
ListPatterns == {"*.csv", "b.json", "*.zzz", "s3://bucket/x.csv"}
Extensions == {None, Some(<<"csv", "json">>), Some(<<"gz">>)}
ListExtensions == {None, Some(<<"csv", "json">>)}

PatternLists == UNION {[1..n -> ListPatterns] : n \in 0..MaxPatterns}

str(v) == [type |-> "str", v |-> v]
list(v) == [type |-> "list", v |-> v]
dict(v) == [type |-> "dict", v |-> v]
EmptyDataFilesList == [type |-> "DataFilesList", v |-> DataFilesList(<<>>, <<>>)]

UserPatterns ==
    {str("*.csv"),
     list(<<"a.csv", "b.json">>),
     dict(<< <<"train", str("*.csv")>>, <<"test", str("*.json")>> >>),
     dict(<< <<"test", list(<<"*.json">>)>>, <<"train", list(<<"*.csv">>)>> >>),
     dict(<< <<"train", list(<<"*train*">>)>>, <<"test", list(<<"*test*">>)>>,
             <<"validation", list(<<"*.zzz">>)>> >>),
     dict(<< <<"train", list(<<"*">>)>>, <<"extra", EmptyDataFilesList>> >>),
     dict(<< <<"extra", EmptyDataFilesList>>, <<"train", list(<<"*">>)>> >>)}

NoResolver == [matching |-> {}, raising |-> {}]
NoCall == [op |-> "none"]

\* The resolvers of the data source
ResolveSinglePattern(pattern, allowed_extensions) ==
    IF backend = "local"
    THEN _resolve_single_pattern_locally(BasePath, files, pattern, allowed_extensions)
    ELSE _resolve_single_pattern_in_dataset_repository(
             DatasetInfo, pattern, allowed_extensions)

ResolvePatternList(patterns, allowed_extensions) ==
    IF backend = "local"
    THEN resolve_patterns_locally_or_by_urls(
             BasePath, files, patterns, allowed_extensions)
    ELSE resolve_patterns_in_dataset_repository(
             DatasetInfo, patterns, allowed_extensions)

Idle ==
    /\ pending = <<>>
    /\ running = {}
    /\ futures = <<>>

\* A directory or repository holding data files, before any call
InitList ==
    /\ backend \in {"local", "repo"}
    /\ files \in Listings(ListFiles)
    /\ resolver = NoResolver
    /\ call = NoCall
    /\ ret = Return(<<>>)
    /\ Idle

\* A directory or repository, its files named after splits or not
Init ==
    /\ backend \in {"local", "repo"}
    /\ files \in Listings(DataFiles) \cup Listings(SplitFiles)
    /\ resolver = NoResolver
    /\ call = NoCall
    /\ ret = Return(<<>>)
    /\ Idle

\* _resolve_single_pattern_locally(base_path, pattern, allowed_extensions) or
\* _resolve_single_pattern_in_dataset_repository(dataset_info, pattern, allowed_extensions)
ResolveSingle ==
    \E pattern \in SinglePatterns, allowed_extensions \in Extensions :
        /\ call = NoCall
        /\ call' = [op |-> "resolve_single", pattern |-> pattern,
                    allowed_extensions |-> allowed_extensions]
        /\ ret' = ResolveSinglePattern(pattern, allowed_extensions)
        /\ UNCHANGED <<backend, files, resolver, pending, running, futures>>

\* resolve_patterns_locally_or_by_urls(base_path, patterns, allowed_extensions) or
\* resolve_patterns_in_dataset_repository(dataset_info, patterns, allowed_extensions)
ResolvePatterns ==
    \E patterns \in PatternLists, allowed_extensions \in ListExtensions :
        /\ call = NoCall
        /\ call' = [op |-> "resolve_patterns", patterns |-> patterns,
                    allowed_extensions |-> allowed_extensions]
        /\ ret' = ResolvePatternList(patterns, allowed_extensions)
        /\ UNCHANGED <<backend, files, resolver, pending, running, futures>>

\* get_patterns_locally(base_path) or get_patterns_in_dataset_repository(dataset_info)
GetPatterns ==
    /\ call = NoCall
    /\ call' = [op |-> "get_patterns"]
    /\ ret' \in IF backend = "local"
                THEN get_patterns_locally(BasePath, files)
                ELSE get_patterns_in_dataset_repository(DatasetInfo)
    /\ UNCHANGED <<backend, files, resolver, pending, running, futures>>

\* DataFilesList.from_local_or_remote(patterns, base_path, allowed_extensions) or
\* DataFilesList.from_hf_repo(patterns, dataset_info, allowed_extensions)
NewDataFilesList ==
    \E patterns \in PatternLists, allowed_extensions \in ListExtensions,
       reachable \in BOOLEAN :
        /\ call = NoCall
        /\ call' = [op |-> "DataFilesList", patterns |-> patterns,
                    allowed_extensions |-> allowed_extensions]
        /\ ret' = IF backend = "local"
                  THEN DataFilesList_from_local_or_remote(
                           patterns, BasePath, files, allowed_extensions, reachable)
                  ELSE DataFilesList_from_hf_repo(
                           patterns, DatasetInfo, allowed_extensions)
        /\ UNCHANGED <<backend, files, resolver, pending, running, futures>>

\* DataFilesDict.from_local_or_remote(patterns, base_path, allowed_extensions) or
\* DataFilesDict.from_hf_repo(patterns, dataset_info, allowed_extensions)
DataFilesDictOf(patterns, allowed_extensions) ==
    /\ call' = [op |-> "DataFilesDict", patterns |-> patterns,
                allowed_extensions |-> allowed_extensions]
    /\ ret' = IF backend = "local"
              THEN DataFilesDict_from_local_or_remote(
                       patterns, BasePath, files, allowed_extensions, TRUE)
              ELSE DataFilesDict_from_hf_repo(
                       patterns, DatasetInfo, allowed_extensions)
    /\ UNCHANGED <<backend, files, resolver, pending, running, futures>>

\* ... with the patterns the user gave, sanitized
NewDataFilesDict ==
    \E patterns \in UserPatterns, allowed_extensions \in ListExtensions :
        /\ call = NoCall
        /\ DataFilesDictOf(sanitize_patterns(patterns), allowed_extensions)

\* ... with the patterns that were inferred
NewDataFilesDictInferred ==
    /\ call.op = "get_patterns"
    /\ ~ret.raised
    /\ \E allowed_extensions \in ListExtensions :
        DataFilesDictOf([i \in 1..Len(ret.value) |->
                            <<ret.value[i][1], list(ret.value[i][2])>>],
                        allowed_extensions)

\* pickling or hashing the DataFilesDict that was built
Reduce ==
    /\ call.op = "DataFilesDict"
    /\ ~ret.raised
    /\ call' = [op |-> "__reduce__", self |-> ret.value]
    /\ ret' = Return(DataFilesDict___reduce__(ret.value))
    /\ UNCHANGED <<backend, files, resolver, pending, running, futures>>

\* The resolution of one pattern
NextSingle == ResolveSingle

SpecSingle == Init /\ [][NextSingle]_vars

\* The resolution of lists of patterns the user gives, and the containers
\* built from them
NextList ==
    \/ ResolvePatterns
    \/ NewDataFilesList
    \/ NewDataFilesDict

SpecList == InitList /\ [][NextList]_vars

\* The inference of the patterns, the DataFilesDict built from patterns, and
\* its pickling
NextDict ==
    \/ GetPatterns
    \/ NewDataFilesDict
    \/ NewDataFilesDictInferred
    \/ Reduce

SpecDict == Init /\ [][NextDict]_vars

(***************************************************************************)
(* _get_origin_metadata_locally_or_by_urls step by step: thread_map        *)
(* submits one task per data file to a pool of max_workers threads, the    *)
(* tasks end in any order, and the results are gathered when all are done. *)
(***************************************************************************)

\* max_workers=64, the default
max_workers == 64

\* The data files the metadata is fetched for
FetchFiles ==
    {PathOf(Parts("/b/a.csv")), PathOf(Parts("/b/sub/b.json")),
     Url("s3://bucket/x.csv")}

FetchLists == UNION {[1..n -> FetchFiles] : n \in 0..MaxTasks}

\* The result of a task that has not ended
NoResult == <<>>

InitFetch ==
    /\ backend = "local"
    /\ files = <<>>
    /\ resolver = NoResolver
    /\ call = NoCall
    /\ ret = Return(<<>>)
    /\ Idle

\* thread_map(fn, data_files, max_workers=workers): the tasks are queued in
\* the order of data_files
Submit ==
    \E data_files \in FetchLists, workers \in {1, 2, max_workers} :
        /\ call = NoCall
        /\ call' = [op |-> "thread_map", data_files |-> data_files,
                    max_workers |-> workers, completed |-> <<>>]
        /\ pending' = [i \in 1..Len(data_files) |-> i]
        /\ running' = {}
        /\ futures' = [i \in 1..Len(data_files) |-> NoResult]
        /\ UNCHANGED <<backend, files, resolver, ret>>

\* An idle worker thread takes the next task of the queue
WorkerStart ==
    /\ call.op = "thread_map"
    /\ pending # <<>>
    /\ Cardinality(running) < call.max_workers
    /\ running' = running \cup {Head(pending)}
    /\ pending' = Tail(pending)
    /\ UNCHANGED <<backend, files, resolver, call, ret, futures>>

\* A worker thread ends its task: the result, or the error of the request, is
\* stored in the task's future
WorkerFinish ==
    \E i \in running, reachable \in BOOLEAN :
        /\ call.op = "thread_map"
        /\ futures' = [futures EXCEPT ![i] =
               _get_single_origin_metadata_locally_or_by_urls(
                   call.data_files[i], reachable)]
        /\ running' = running \ {i}
        /\ call' = [call EXCEPT !.completed = Append(@, i)]
        /\ UNCHANGED <<backend, files, resolver, ret, pending>>

\* Every task has ended: thread_map returns, or raises the error of a request
ThreadMapReturn ==
    /\ call.op = "thread_map"
    /\ pending = <<>>
    /\ running = {}
    /\ call' = [op |-> "origin_metadata", data_files |-> call.data_files,
                completed |-> call.completed]
    /\ ret' = IF ConnectionError \in Range(futures)
              THEN RaisedConnectionError
              ELSE Return(GatherResults(futures, call.completed))
    /\ pending' = <<>>
    /\ running' = {}
    /\ futures' = <<>>
    /\ UNCHANGED <<backend, files, resolver>>

NextFetch ==
    \/ Submit
    \/ WorkerStart
    \/ WorkerFinish
    \/ ThreadMapReturn

SpecFetch == InitFetch /\ [][NextFetch]_vars

(***************************************************************************)
(* _get_data_files_patterns(pattern_resolver) for a resolver the caller    *)
(* gives: any function of the pattern that returns a list of paths or      *)
(* raises FileNotFoundError.                                               *)
(***************************************************************************)

\* The resolver: a file for the patterns it matches, an error for those it
\* raises on, no file for the others
CallableResolver(pattern) ==
    IF pattern \in resolver.raising THEN FileNotFoundError
    ELSE IF pattern \in resolver.matching
    THEN Return(<<Parts(IF pattern = ShardedGlob
                        THEN "data/train-00000-of-00001.parquet"
                        ELSE "train_eval/dev_file.csv")>>)
    ELSE Return(<<>>)

\* The subsets of S of at most n elements
RECURSIVE SubsetsUpTo(_, _)
SubsetsUpTo(S, n) ==
    IF n = 0 THEN {{}}
    ELSE LET smaller == SubsetsUpTo(S, n - 1)
         IN  smaller \cup {T \cup {x} : T \in smaller, x \in S}

InitProbe ==
    /\ backend = "callable"
    /\ files = <<>>
    /\ resolver \in {r \in [matching : SubsetsUpTo(ProbedPatterns, MaxMatching),
                            raising : SubsetsUpTo(ProbedPatterns, MaxRaising)] :
                        r.matching \cap r.raising = {}}
    /\ call = NoCall
    /\ ret = Return(<<>>)
    /\ Idle

\* _get_data_files_patterns(pattern_resolver)
Probe ==
    /\ call = NoCall
    /\ call' = [op |-> "get_patterns"]
    /\ ret' \in _get_data_files_patterns(
                    [pattern \in ProbedPatterns |-> CallableResolver(pattern)])
    /\ UNCHANGED <<backend, files, resolver, pending, running, futures>>

NextProbe == Probe

SpecProbe == InitProbe /\ [][NextProbe]_vars

(***************************************************************************)
(* Properties                                                              *)
(***************************************************************************)

\* The orders of the elements of a list
Reorderings(seq) ==
    {[i \in 1..Len(seq) |-> seq[p[i]]] : p \in Orders(1..Len(seq))}

\* Whether two lists hold the same elements, each as many times
Count(seq, x) == Cardinality({i \in 1..Len(seq) : seq[i] = x})
SameElements(a, b) == \A x \in Range(a) \cup Range(b) : Count(a, x) = Count(b, x)

\* Whether a pattern holds one of the characters "*", "[", "]"
HasWildcard(pattern) ==
    \E i \in 1..Len(pattern) : Char(pattern, i) \in {"*", "[", "]"}

\* The files of the data source a pattern selects, the ignored files and the
\* dotfiles left out, before any filter on the extensions
Matched(pattern) ==
    LET r == ResolveSinglePattern(pattern, None)
    IN  IF r.raised THEN {} ELSE Range(r.value)

\* Whether one of the suffixes of the file's name is an allowed extension
SomeSuffixAllowed(filepath, allowed_extensions) ==
    \E i \in 1..Len(Suffixes(filepath)) :
        Suffixes(filepath)[i] \in Range(allowed_extensions[1])

\* Whether the last suffix of the file's name is an allowed extension
FinalSuffixAllowed(filepath, allowed_extensions) ==
    /\ Suffixes(filepath) # <<>>
    /\ Suffixes(filepath)[Len(Suffixes(filepath))] \in Range(allowed_extensions[1])

\* The files that are left of Matched(pattern) after the filter on the extensions
Filtered(pattern, allowed_extensions) ==
    IF allowed_extensions = None THEN Matched(pattern)
    ELSE {f \in Matched(pattern) : SomeSuffixAllowed(f, allowed_extensions)}

\* The files a single-pattern call returned: none when it raised
Kept == IF ret.raised THEN {} ELSE Range(ret.value)

\* C1: every DataFilesList built by from_local_or_remote or from_hf_repo has as
\* many origin_metadata entries as it has data files.
C1_OneMetadataPerFile ==
    (call.op = "DataFilesList" /\ ~ret.raised)
        => Len(ret.value.origin_metadata) = Len(ret.value.data_files)

\* Whether the data source has a file for the pattern
Hit(pattern) == Matched(pattern) # {}

\* The splits of a patterns_dict that have an alternative pattern with a file
PresentSplits(patterns_dict) ==
    {patterns_dict[i][1] :
        i \in {j \in 1..Len(patterns_dict) :
                  \E a \in 1..Len(patterns_dict[j][2]) : Hit(patterns_dict[j][2][a])}}

\* The convention strategies that find a split
PresentStrategies ==
    {k \in 1..Len(ALL_DEFAULT_PATTERNS) : PresentSplits(ALL_DEFAULT_PATTERNS[k]) # {}}

\* Whether every value of an inferred mapping is the sharded template with the
\* key substituted
IsShardedMapping(mapping) ==
    \A i \in 1..Len(mapping) :
        mapping[i][2] = <<Replace(SPLIT_PATTERN_SHARDED, "{split}", mapping[i][1])>>

\* C2: split inference on a directory or repository returns the sharded
\* mapping when a file matches the sharded template; otherwise the mapping of
\* the first of the filename, directory and catch-all conventions that has a
\* split with a file, restricted to exactly the splits that have one; and it
\* raises FileNotFoundError when there is none.
C2_FirstStrategyWins ==
    call.op = "get_patterns"
        => IF Hit(ShardedGlob)
           THEN ~ret.raised /\ IsShardedMapping(ret.value)
           ELSE IF PresentStrategies = {}
           THEN ret = FileNotFoundError
           ELSE ret = Return(SelectSeq(
                          ALL_DEFAULT_PATTERNS[Min(PresentStrategies)],
                          LAMBDA item :
                              item[1] \in PresentSplits(
                                  ALL_DEFAULT_PATTERNS[Min(PresentStrategies)])))

\* train.csv, test.csv and a.csv: the filename convention decides, for train
\* and test only, though the catch-all has files too
C2_Witness ==
    /\ call.op = "get_patterns"
    /\ Range(files) = {"train.csv", "test.csv", "a.csv"}
    /\ ret = Return(<< <<"train", <<"*train*">> >>,
                       <<"test", <<"*test*", "*eval*">> >> >>)

\* C3: a single-pattern resolver raises FileNotFoundError exactly when no file
\* is left after the filters and the pattern has none of "*", "[", "]"; with
\* one of them and no file left it returns the empty list.
C3_RaisesIffEmptyAndNoWildcard ==
    call.op = "resolve_single"
        => /\ ret.raised <=>
                  /\ Filtered(call.pattern, call.allowed_extensions) = {}
                  /\ ~HasWildcard(call.pattern)
           /\ (/\ Filtered(call.pattern, call.allowed_extensions) = {}
               /\ HasWildcard(call.pattern)) => ret = Return(<<>>)

\* a.csv exists, but not with an allowed extension: the call raises
C3_Witness ==
    /\ call.op = "resolve_single"
    /\ call.pattern = "a.csv"
    /\ call.allowed_extensions = Some(<<"gz">>)
    /\ "a.csv" \in Range(files)
    /\ ret.raised

\* The outcome of the multi-pattern resolver for a list of one pattern, the
\* error of an empty result counted as no file
FilesOfPattern(pattern, allowed_extensions) ==
    LET r == ResolvePatternList(<<pattern>>, allowed_extensions)
    IN  IF r.raised THEN <<>> ELSE r.value

C5_ReduceIgnoresInsertionOrder ==
    call.op = "__reduce__"
        => /\ \A other \in Reorderings(call.self) :
                  Return(DataFilesDict___reduce__(other)) = ret
           /\ Range(ret.value) = Range(call.self)
           /\ \A i \in 1..Len(ret.value), j \in 1..Len(ret.value) :
                  i < j => StrLess(ret.value[i][1], ret.value[j][1])

\* A DataFilesDict whose keys were inserted as train, test
C5_Witness ==
    /\ call.op = "__reduce__"
    /\ Len(call.self) = 2
    /\ call.self[1][1] = "train"
    /\ call.self[2][1] = "test"
    /\ ret.value[1][1] = "test"

\* C6: the origin metadata are aligned with the data files: as many, and the
\* i-th is the metadata of the i-th data file, whatever the order in which the
\* worker threads ended their tasks.
C6_MetadataAligned ==
    (call.op = "origin_metadata" /\ ~ret.raised)
        => /\ Len(ret.value) = Len(call.data_files)
           /\ \A i \in 1..Len(call.data_files) :
                  ret.value[i] = _get_single_origin_metadata_locally_or_by_urls(
                                     call.data_files[i], TRUE)

\* The task of the second data file ended before that of the first
C6_Witness ==
    /\ call.op = "origin_metadata"
    /\ ~ret.raised
    /\ Len(call.data_files) >= 2
    /\ call.data_files[1] # call.data_files[2]
    /\ call.completed[1] = 2

\* C7, as the specification states it: with allowed_extensions, a matched file
\* is kept exactly when its final suffix is an allowed extension.
C7_Original ==
    (call.op = "resolve_single" /\ call.allowed_extensions # None)
        => Kept = {f \in Matched(call.pattern) :
                      FinalSuffixAllowed(f, call.allowed_extensions)}

\* C7, amended: with allowed_extensions, a matched file is kept exactly when
\* one of the suffixes of its name is an allowed extension.
C7_Amended ==
    (call.op = "resolve_single" /\ call.allowed_extensions # None)
        => Kept = {f \in Matched(call.pattern) :
                      SomeSuffixAllowed(f, call.allowed_extensions)}

\* d.csv.gz is kept for the extensions csv and json
C7_Witness ==
    /\ call.op = "resolve_single"
    /\ call.allowed_extensions = Some(<<"csv", "json">>)
    /\ \E f \in Kept : Name(f) = "d.csv.gz"

\* The split in the path of a shard data/<split>-NNNNN-of-NNNNN.parquet
SplitOfShard(path) ==
    SubSeq(path, Find(path, "data/", 1) + Len("data/"),
           Len(path) - Len("-00000-of-00000.parquet"))

MatchesSome(patterns) == \E i \in 1..Len(patterns) : patterns[i] \in resolver.matching

\* The convention strategies in which a split has an alternative with a file
MatchingStrategies ==
    {k \in 1..Len(ALL_DEFAULT_PATTERNS) :
        \E i \in 1..Len(ALL_DEFAULT_PATTERNS[k]) :
            MatchesSome(ALL_DEFAULT_PATTERNS[k][i][2])}

\* C9: in the convention strategies a FileNotFoundError of the resolver on one
\* alternative pattern of a split does not end the probing of that split: the
\* split is present when any of its alternatives has a file, so the mapping
\* is that of the first strategy with such a split, for exactly such splits.
C9_EveryAlternativeProbed ==
    (/\ call.op = "get_patterns"
     /\ ShardedGlob \notin resolver.matching \cup resolver.raising)
        => IF MatchingStrategies = {}
           THEN ret = FileNotFoundError
           ELSE ret = Return(SelectSeq(
                          ALL_DEFAULT_PATTERNS[Min(MatchingStrategies)],
                          LAMBDA item : MatchesSome(item[2])))

\* What one pattern contributes to the list of a multi-pattern resolver
Contribution(pattern, allowed_extensions) ==
    IF backend = "local" /\ is_remote_url(pattern)
    THEN Return(<<pattern>>)
    ELSE ResolveSinglePattern(pattern, allowed_extensions)

\* C10: a multi-pattern resolver never returns the empty list, it raises
\* FileNotFoundError when every pattern resolves to the empty list; so a
\* DataFilesList built from patterns, and each value of a DataFilesDict that
\* was built from a list of patterns, has a data file.
C10_NeverEmpty ==
    /\ call.op = "resolve_patterns"
           => /\ ~ret.raised => ret.value # <<>>
              /\ (\A i \in 1..Len(call.patterns) :
                      Contribution(call.patterns[i], call.allowed_extensions)
                          = Return(<<>>))
                     => ret = FileNotFoundError
    /\ (call.op = "DataFilesList" /\ ~ret.raised) => ret.value.data_files # <<>>
    /\ (call.op = "DataFilesDict" /\ ~ret.raised)
           => \A i \in 1..Len(call.patterns) :
                  call.patterns[i][2].type # "DataFilesList"
                      => ret.value[i][2].data_files # <<>>

\* Two patterns with wildcards and no file for either: the call raises
C10_Witness ==
    /\ call.op = "resolve_patterns"
    /\ call.patterns = <<"*.zzz", "*.csv">>
    /\ "b.json" \in Range(files)
    /\ ret = FileNotFoundError

====
